---- MODULE Spec2Model ----
(***************************************************************************)
(* Model of src/main.rs: an axum server with three routes.                 *)
(*   GET /        root        sets HOSTNAME and LOCAL_IP in the process    *)
(*                            environment, snapshots it, renders HTML      *)
(*   GET /api     get_env     snapshots the environment, returns JSON      *)
(*   GET /health  get_health  returns 200 "OK"                             *)
(* Requests run concurrently as tasks; the process environment table is    *)
(* the only shared mutable state.  Every env::set_var and every env::vars  *)
(* call is one atomic step (std serialises them on its environment lock),  *)
(* the steps of different requests interleave freely.                      *)
(***************************************************************************)
EXTENDS Naturals, Sequences, FiniteSets, TLC

\* Number of requests the server receives in a run.  They are numbered in
\* the order of their arrival and any number of them can be in flight at
\* the same time.
MaxReq == 2

Requests == 1..MaxReq

\* ---------------------------------------------------------------- values

\* A byte string that is not valid Unicode (as an environment value, and as
\* a kernel hostname).
NonUnicode == "<FF>"
NonUnicodeHost == "node-<FF>"

IsUnicode(s) == s \notin {NonUnicode, NonUnicodeHost}

Keys == {"FOO", "HOSTNAME", "LOCAL_IP"}
SyntheticKeys == {"HOSTNAME", "LOCAL_IP"}

\* The order in which the template's loop visits the keys of a snapshot.
KeyOrder == <<"FOO", "HOSTNAME", "LOCAL_IP">>

\* The environments the process can be started with.
InitEnvs ==
    { e \in UNION { [S -> {"bar", NonUnicode, "node-0", "10.0.0.9"}] : S \in SUBSET Keys } :
        /\ "FOO" \in DOMAIN e /\ e["FOO"] \in {"bar", NonUnicode}
        /\ "HOSTNAME" \in DOMAIN e => e["HOSTNAME"] = "node-0"
        /\ "LOCAL_IP" \in DOMAIN e => e["LOCAL_IP"] = "10.0.0.9" }

\* What the operating system can answer to gethostname().
OsHostnames == {"node-1", NonUnicodeHost}

\* The addresses local_ip() can return when it does not return an error.
LocalIps == {"10.0.0.1", "10.0.0.2"}

\* The request paths a client can send.
Paths == {"/", "/health", "/api", "/other"}

VARIABLES
    env,        \* the process environment table: a function on the keys that are set
    serving,    \* the accept loop of axum::serve is running
    pc,         \* per request: where its handler is
    route,      \* per request: the path it was sent to
    host,       \* per request: the hostname root resolved on line 52
    ip,         \* per request: root's my_local_ip, "Err" when local_ip() failed
    envs,       \* per request: <<>> or <<the HashMap collected from env::vars()>>
    resp,       \* per request: <<>> or <<the response sent>>
    env0,       \* history: the environment the process started with
    lastWrite,  \* history: per key, the value of the last set_var on it
    complete,   \* history: some root call has done both of its writes
    failed,     \* history: some root call has failed on local_ip()
    mark        \* history: how many requests had arrived at the first such failure

vars == <<env, serving, pc, route, host, ip, envs, resp,
          env0, lastWrite, complete, failed, mark>>

\* ------------------------------------------------------- pure operations

\* Mutant of SetVar: a key that is already set keeps its value.
SetVarKeep(e, k, v) ==
    [x \in DOMAIN e \cup {k} |-> IF x \in DOMAIN e THEN e[x] ELSE v]

\* std::env::set_var(k, v): insert or overwrite one key.
SetVar(e, k, v) ==
    [x \in DOMAIN e \cup {k} |-> IF x = k THEN v ELSE e[x]]

\* OsString::to_string_lossy().to_string(): invalid bytes become U+FFFD.
ToStringLossy(s) == IF s = NonUnicodeHost THEN "node-<U+FFFD>" ELSE s

\* env::vars() panics when a key or a value is not valid Unicode.
VarsPanics(e) == \E k \in DOMAIN e : ~IsUnicode(e[k])

\* env::vars().collect::<HashMap<String, String>>()
CollectVars(e) == [k \in DOMAIN e |-> e[k]]

\* {{ envs.KEY }}: an undefined attribute renders as the empty string.
Lookup(m, k) == IF k \in DOMAIN m THEN m[k] ELSE ""

\* Mutant of Rows: the loop leaves out the synthetic keys.
RECURSIVE RowsInherited(_, _)
RowsInherited(m, i) ==
    IF i > Len(KeyOrder) THEN <<>>
    ELSE (IF KeyOrder[i] \in DOMAIN m /\ KeyOrder[i] \notin SyntheticKeys
             THEN << <<KeyOrder[i], m[KeyOrder[i]]>> >>
             ELSE <<>>) \o RowsInherited(m, i + 1)

\* {% for item in envs %} <tr><td>item</td><td>envs[item]</td></tr>
RECURSIVE Rows(_, _)
Rows(m, i) ==
    IF i > Len(KeyOrder) THEN <<>>
    ELSE (IF KeyOrder[i] \in DOMAIN m
             THEN << <<KeyOrder[i], m[KeyOrder[i]]>> >>
             ELSE <<>>) \o Rows(m, i + 1)

\* render!(HTML, envs): the dynamic parts of the rendered document.
Render(m) ==
    [ title |-> Lookup(m, "HOSTNAME"),
      h1    |-> Lookup(m, "HOSTNAME"),
      p     |-> Lookup(m, "LOCAL_IP"),
      rows  |-> Rows(m, 1) ]

\* Json(envs): a JSON object, one member per entry of the map.
ToJson(m) == { <<k, m[k]>> : k \in DOMAIN m }

\* Parsing a JSON object back into a map.
FromJson(b) == [k \in { q[1] : q \in b } |-> (CHOOSE q \in b : q[1] = k)[2]]

\* root, line 58: (StatusCode::OK, Html(rendered))
RootResponse(m) ==
    [status |-> 200, ctype |-> "text/html; charset=utf-8", body |-> Render(m)]

\* get_env, line 72: Json(envs)
EnvResponse(m) ==
    [status |-> 200, ctype |-> "application/json", body |-> ToJson(m)]

\* Mutant of HealthResponse: a readiness probe that looks at the environment.
HealthResponseReady ==
    [status |-> IF "LOCAL_IP" \in DOMAIN env THEN 200 ELSE 503,
     ctype |-> "text/plain; charset=utf-8",
     body |-> IF "LOCAL_IP" \in DOMAIN env THEN "OK" ELSE "NOT READY"]

\* get_health, line 83: (StatusCode::OK, "OK")
HealthResponse ==
    [status |-> 200, ctype |-> "text/plain; charset=utf-8", body |-> "OK"]

\* The router's answer to a path no route matches.
NotFoundResponse ==
    [status |-> 404, ctype |-> "", body |-> ""]

\* Router: exact path match, anything else falls through to 404.
Handler(path) ==
    CASE path = "/"       -> "root"
      [] path = "/health" -> "get_health"
      [] path = "/api"    -> "get_env"
      [] OTHER            -> "not_found"

\* Mutant of ServingAfterPanic: the panic takes the whole process down.
ServingAfterAbort == FALSE

\* What a panic inside a handler does to the listener: the task of that
\* connection unwinds, the accept loop of axum::serve keeps running.
ServingAfterPanic == serving

\* -------------------------------------------------------------- history

\* The record of the last value written to each key, after a write of v to k.
Noted(k, v) ==
    [x \in DOMAIN lastWrite \cup {k} |-> IF x = k THEN v ELSE lastWrite[x]]

\* The number of requests that have arrived.
Arrived == Cardinality({ r \in Requests : pc[r] # "idle" })

\* ---------------------------------------------------------------- Init

Init ==
    /\ env \in InitEnvs
    /\ env0 = env
    /\ serving = TRUE
    /\ pc = [r \in Requests |-> "idle"]
    /\ route = [r \in Requests |-> ""]
    /\ host = [r \in Requests |-> ""]
    /\ ip = [r \in Requests |-> ""]
    /\ envs = [r \in Requests |-> <<>>]
    /\ resp = [r \in Requests |-> <<>>]
    /\ lastWrite = <<>>
    /\ complete = FALSE
    /\ failed = FALSE
    /\ mark = 0

\* ------------------------------------------------------------- actions

\* The next request arrives and the router hands it to its handler.
Dispatch(r) ==
    /\ serving
    /\ pc[r] = "idle"
    /\ \A q \in Requests : q < r => pc[q] # "idle"
    /\ \E path \in Paths :
        /\ route' = [route EXCEPT ![r] = path]
        /\ pc' = [pc EXCEPT ![r] = Handler(path)]
    /\ UNCHANGED <<env, serving, host, ip, envs, resp,
                   env0, lastWrite, complete, failed, mark>>

\* Mutant of root_set_hostname: the hostname is resolved but not yet written.
root_resolve_hostname(r) ==
    /\ serving
    /\ pc[r] = "root"
    /\ \E h \in OsHostnames : host' = [host EXCEPT ![r] = ToStringLossy(h)]
    /\ pc' = [pc EXCEPT ![r] = "local_ip"]
    /\ UNCHANGED <<env, serving, route, ip, envs, resp,
                   env0, lastWrite, complete, failed, mark>>

\* root, line 52: env::set_var("HOSTNAME", gethostname().to_string_lossy()...).
\* gethostname() reads nothing another request can change, so the call and
\* the write that uses its result are one step.
root_set_hostname(r) ==
    /\ serving
    /\ pc[r] = "root"
    /\ \E h \in OsHostnames :
        /\ host' = [host EXCEPT ![r] = ToStringLossy(h)]
        /\ env' = SetVar(env, "HOSTNAME", ToStringLossy(h))
        /\ lastWrite' = Noted("HOSTNAME", ToStringLossy(h))
    /\ pc' = [pc EXCEPT ![r] = "local_ip"]
    /\ UNCHANGED <<serving, route, ip, envs, resp, env0, complete, failed, mark>>

\* Mutant of root_local_ip_err: unwrap_or_default, the handler carries on
\* without writing LOCAL_IP.
root_local_ip_ignored(r) ==
    /\ serving
    /\ pc[r] = "local_ip"
    /\ ip' = [ip EXCEPT ![r] = "Err"]
    /\ pc' = [pc EXCEPT ![r] = "vars"]
    /\ failed' = TRUE
    /\ mark' = IF failed THEN mark ELSE Arrived
    /\ UNCHANGED <<env, serving, route, host, envs, resp, env0, lastWrite, complete>>

\* root, line 53: local_ip().unwrap() when local_ip() is Err: unwrap panics.
root_local_ip_err(r) ==
    /\ serving
    /\ pc[r] = "local_ip"
    /\ ip' = [ip EXCEPT ![r] = "Err"]
    /\ pc' = [pc EXCEPT ![r] = "unwrap_panic"]
    /\ serving' = ServingAfterPanic
    /\ failed' = TRUE
    /\ mark' = IF failed THEN mark ELSE Arrived
    /\ UNCHANGED <<env, route, host, envs, resp, env0, lastWrite, complete>>

\* Mutant of root_set_local_ip: the address is resolved but never exported.
root_keep_local_ip(r) ==
    /\ serving
    /\ pc[r] = "local_ip"
    /\ \E a \in LocalIps : ip' = [ip EXCEPT ![r] = a]
    /\ pc' = [pc EXCEPT ![r] = "vars"]
    /\ UNCHANGED <<env, serving, route, host, envs, resp,
                   env0, lastWrite, complete, failed, mark>>

\* root, lines 53-54: local_ip() is Ok(a); env::set_var("LOCAL_IP", a.to_string()).
\* As for the hostname, the resolution and the write are one step.
root_set_local_ip(r) ==
    /\ serving
    /\ pc[r] = "local_ip"
    /\ \E a \in LocalIps :
        /\ ip' = [ip EXCEPT ![r] = a]
        /\ env' = SetVar(env, "LOCAL_IP", a)
        /\ lastWrite' = Noted("LOCAL_IP", a)
    /\ complete' = TRUE
    /\ pc' = [pc EXCEPT ![r] = "vars"]
    /\ UNCHANGED <<serving, route, host, envs, resp, env0, failed, mark>>

\* Mutant of root_render: the handler removes LOCAL_IP again once the page
\* is rendered.
root_render_cleanup(r) ==
    /\ serving
    /\ pc[r] = "vars"
    /\ IF VarsPanics(env)
          THEN /\ pc' = [pc EXCEPT ![r] = "vars_panic"]
               /\ serving' = ServingAfterPanic
               /\ UNCHANGED <<envs, resp, env>>
          ELSE /\ envs' = [envs EXCEPT ![r] = <<CollectVars(env)>>]
               /\ resp' = [resp EXCEPT ![r] = <<RootResponse(CollectVars(env))>>]
               /\ pc' = [pc EXCEPT ![r] = "done"]
               /\ env' = [k \in DOMAIN env \ {"LOCAL_IP"} |-> env[k]]
               /\ UNCHANGED serving
    /\ UNCHANGED <<route, host, ip, env0, lastWrite, complete, failed, mark>>

\* root, lines 55-58: env::vars().collect(), render!, (StatusCode::OK, Html(..))
root_render(r) ==
    /\ serving
    /\ pc[r] = "vars"
    /\ IF VarsPanics(env)
          THEN /\ pc' = [pc EXCEPT ![r] = "vars_panic"]
               /\ serving' = ServingAfterPanic
               /\ UNCHANGED <<envs, resp>>
          ELSE /\ envs' = [envs EXCEPT ![r] = <<CollectVars(env)>>]
               /\ resp' = [resp EXCEPT ![r] = <<RootResponse(CollectVars(env))>>]
               /\ pc' = [pc EXCEPT ![r] = "done"]
               /\ UNCHANGED serving
    /\ UNCHANGED <<env, route, host, ip, env0, lastWrite, complete, failed, mark>>

\* Mutant of get_env: the handler exports the hostname the way root does.
get_env_synthetic(r) ==
    /\ serving
    /\ pc[r] = "get_env"
    /\ \E h \in OsHostnames :
        LET e == SetVar(env, "HOSTNAME", ToStringLossy(h)) IN
        /\ env' = e
        /\ lastWrite' = Noted("HOSTNAME", ToStringLossy(h))
        /\ IF VarsPanics(e)
              THEN /\ pc' = [pc EXCEPT ![r] = "vars_panic"]
                   /\ serving' = ServingAfterPanic
                   /\ UNCHANGED <<envs, resp>>
              ELSE /\ envs' = [envs EXCEPT ![r] = <<CollectVars(e)>>]
                   /\ resp' = [resp EXCEPT ![r] = <<EnvResponse(CollectVars(e))>>]
                   /\ pc' = [pc EXCEPT ![r] = "done"]
                   /\ UNCHANGED serving
    /\ UNCHANGED <<route, host, ip, env0, complete, failed, mark>>

\* get_env, lines 69-73
get_env(r) ==
    /\ serving
    /\ pc[r] = "get_env"
    /\ IF VarsPanics(env)
          THEN /\ pc' = [pc EXCEPT ![r] = "vars_panic"]
               /\ serving' = ServingAfterPanic
               /\ UNCHANGED <<envs, resp>>
          ELSE /\ envs' = [envs EXCEPT ![r] = <<CollectVars(env)>>]
               /\ resp' = [resp EXCEPT ![r] = <<EnvResponse(CollectVars(env))>>]
               /\ pc' = [pc EXCEPT ![r] = "done"]
               /\ UNCHANGED serving
    /\ UNCHANGED <<env, route, host, ip, env0, lastWrite, complete, failed, mark>>

\* get_health, lines 81-84
get_health(r) ==
    /\ serving
    /\ pc[r] = "get_health"
    /\ resp' = [resp EXCEPT ![r] = <<HealthResponse>>]
    /\ pc' = [pc EXCEPT ![r] = "done"]
    /\ UNCHANGED <<env, serving, route, host, ip, envs,
                   env0, lastWrite, complete, failed, mark>>

\* The router's fallback for a path no route matches.
not_found(r) ==
    /\ serving
    /\ pc[r] = "not_found"
    /\ resp' = [resp EXCEPT ![r] = <<NotFoundResponse>>]
    /\ pc' = [pc EXCEPT ![r] = "done"]
    /\ UNCHANGED <<env, serving, route, host, ip, envs,
                   env0, lastWrite, complete, failed, mark>>

Next ==
    \E r \in Requests :
        \/ Dispatch(r)
        \/ root_set_hostname(r)
        \/ root_local_ip_err(r)
        \/ root_set_local_ip(r)
        \/ root_render(r)
        \/ get_env(r)
        \/ get_health(r)
        \/ not_found(r)

Spec == Init /\ [][Next]_vars

\* ------------------------------------------------- vocabulary of the claims

Panicked(r) == pc[r] \in {"unwrap_panic", "vars_panic"}

\* The handler of request r has run to its end, one way or the other.
Ended(r) == pc[r] = "done" \/ Panicked(r)

Answered(r) == resp[r] # <<>>

\* Request r arrived after a root call had failed on local_ip().
Later(r) == failed /\ r > mark /\ pc[r] # "idle"

\* The value of key k in table e: <<>> when k is not set.
Get(e, k) == IF k \in DOMAIN e THEN <<e[k]>> ELSE <<>>

\* Request r takes a step.
Steps(r) == pc'[r] # pc[r]

\* Request r takes its snapshot of the environment in this step.
Snapshots(r) == envs[r] = <<>> /\ envs'[r] # <<>>

\* The hostnames a root call can write.
Resolved == { ToStringLossy(h) : h \in OsHostnames }

\* ------------------------------------------------------------------- C1

\* C1: every /health request is answered with status 200 and body OK,
\* whatever the environment holds and whatever other requests did or do;
\* it never panics, and any two /health responses are identical.
C1_Health ==
    \A r \in Requests :
        route[r] = "/health" =>
            /\ ~Panicked(r)
            /\ pc[r] = "done" =>
                /\ Answered(r)
                /\ resp[r][1].status = 200
                /\ resp[r][1].body = "OK"
                /\ \A q \in Requests :
                    route[q] = "/health" /\ pc[q] = "done" => resp[q] = resp[r]

\* A /health request answered after a root call failed, the environment
\* holding a value that is not Unicode.
C1_Witness ==
    \E r \in Requests :
        /\ route[r] = "/health" /\ pc[r] = "done" /\ Later(r)
        /\ VarsPanics(env)

\* ------------------------------------------------------------------- C2

\* C2: every /api request is answered with status 200 and a JSON object
\* equal to the environment table the handler read.  (Stated as the claim
\* states it: for every request whose handler has ended.)
C2_EveryApiAnswered ==
    \A r \in Requests :
        route[r] = "/api" /\ Ended(r) =>
            /\ Answered(r)
            /\ resp[r][1].status = 200
            /\ envs[r] # <<>>
            /\ FromJson(resp[r][1].body) = envs[r][1]

\* ------------------------------------------------------------------- C3

\* The table of a page has exactly one row per variable of snapshot m, the
\* row showing the key and its value.
OneRowPerVariable(rows, m) ==
    /\ Len(rows) = Cardinality(DOMAIN m)
    /\ \A k \in DOMAIN m : \E i \in 1..Len(rows) : rows[i] = <<k, m[k]>>

C5_FailFast ==
    \A r \in Requests :
        /\ ip[r] = "Err" =>
            /\ pc[r] = "unwrap_panic"
            /\ envs[r] = <<>>
            /\ ~Answered(r)
        /\ route[r] = "/" /\ Answered(r) =>
            /\ ip[r] \in LocalIps
            /\ resp[r][1].body.p \in LocalIps

\* A root call that failed while the table held a LOCAL_IP left by an
\* earlier root call.
C5_Witness ==
    \E r \in Requests :
        /\ ip[r] = "Err" /\ pc[r] = "unwrap_panic"
        /\ "LOCAL_IP" \in DOMAIN lastWrite

\* ------------------------------------------------------------------- C6

\* Every key that was written holds the value of the last write to it.
LastWriterWins ==
    \A k \in DOMAIN lastWrite : k \in DOMAIN env /\ env[k] = lastWrite[k]

\* No step changes more than one key of the table.
OneKeyPerStep ==
    Cardinality({ k \in Keys : Get(env', k) # Get(env, k) }) <= 1

\* C6: root writes HOSTNAME and LOCAL_IP in two separate steps, nothing
\* swaps the two at once, and each key holds the value of the last write to
\* it, whichever request made it.
C6_LastWriterWins == [] LastWriterWins /\ [][OneKeyPerStep]_vars

\* An /api response showing the HOSTNAME written by a root call that is
\* still in flight, and no LOCAL_IP.
C6_Witness ==
    \E r, q \in Requests :
        /\ route[r] = "/api" /\ Answered(r)
        /\ route[q] = "/" /\ pc[q] = "local_ip"
        /\ \A x \in Requests \ {q} : route[x] # "/"
        /\ "HOSTNAME" \notin DOMAIN env0
        /\ Get(FromJson(resp[r][1].body), "HOSTNAME") = <<host[q]>>
        /\ "LOCAL_IP" \notin DOMAIN FromJson(resp[r][1].body)

\* ------------------------------------------------------------------- C7

\* The table changes only in a writing step of a root call.
OnlyRootWrites ==
    env' # env =>
        \E r \in Requests :
            /\ route[r] = "/"
            /\ pc[r] \in {"root", "local_ip"}
            /\ Steps(r)

\* As long as no root call has written, the table is the initial one and
\* every /api response equals it.
ApiBeforeAnyWrite ==
    lastWrite = <<>> =>
        /\ env = env0
        /\ \A r \in Requests :
            route[r] = "/api" /\ Answered(r) =>
                /\ FromJson(resp[r][1].body) = env0
                /\ \A k \in SyntheticKeys :
                    k \notin DOMAIN env0 => k \notin DOMAIN FromJson(resp[r][1].body)

\* C7: only root writes the environment table; /api and /health leave it
\* unchanged; while no root call has written, an /api response equals the
\* initial environment and omits HOSTNAME and LOCAL_IP when that did.
C7_OnlyRootWrites == [] ApiBeforeAnyWrite /\ [][OnlyRootWrites]_vars

\* An /api response without the synthetic keys, a /health request answered
\* too, nothing written.
C7_Witness ==
    \E r, q \in Requests :
        /\ route[r] = "/api" /\ Answered(r)
        /\ route[q] = "/health" /\ Answered(q)
        /\ lastWrite = <<>>
        /\ DOMAIN FromJson(resp[r][1].body) = {"FOO"}

\* ------------------------------------------------------------------- C8

\* Once a root call has done both writes the table holds both keys, each
\* with the value last written to it.
BothKeysStay ==
    complete =>
        \A k \in SyntheticKeys :
            k \in DOMAIN env /\ k \in DOMAIN lastWrite /\ env[k] = lastWrite[k]

\* A snapshot taken after that holds both keys with those values, and the
\* response built from it shows them.
SnapshotAfterComplete ==
    \A r \in Requests :
        complete /\ Snapshots(r) =>
            /\ \A k \in SyntheticKeys :
                k \in DOMAIN envs'[r][1] /\ envs'[r][1][k] = lastWrite[k]
            /\ route[r] = "/api" => FromJson(resp'[r][1].body) = envs'[r][1]
            /\ route[r] = "/" =>
                /\ resp'[r][1].body.h1 = lastWrite["HOSTNAME"]
                /\ resp'[r][1].body.p = lastWrite["LOCAL_IP"]

\* C8: the writes of root stay in the process environment: once a root call
\* has completed both, every later snapshot, of /api or of /, holds HOSTNAME
\* and LOCAL_IP with the values of the most recent write to each.
C8_WritesPersist == [] BothKeysStay /\ [][SnapshotAfterComplete]_vars

\* An /api response with both keys in a process started without them, the
\* root call that wrote them having returned.
C8_Witness ==
    \E r, q \in Requests :
        /\ route[q] = "/" /\ pc[q] = "done"
        /\ route[r] = "/api" /\ Answered(r)
        /\ DOMAIN env0 = {"FOO"}
        /\ FromJson(resp[r][1].body) =
              [FOO |-> "bar", HOSTNAME |-> host[q], LOCAL_IP |-> ip[q]]

\* ------------------------------------------------------------------- C9

\* No other request is a request to /.
OnlyRoot(r) == \A q \in Requests \ {r} : route[q] # "/"

\* The table after a failed root call that ran without another root call
\* beside or before it: the initial table with HOSTNAME overwritten.
FailedRootLeaves ==
    \A r \in Requests :
        pc[r] = "unwrap_panic" =>
            /\ "HOSTNAME" \in DOMAIN lastWrite
            /\ OnlyRoot(r) =>
                /\ DOMAIN env = DOMAIN env0 \cup {"HOSTNAME"}
                /\ env["HOSTNAME"] = host[r]
                /\ host[r] \in Resolved
                /\ \A k \in DOMAIN env0 \ {"HOSTNAME"} : env[k] = env0[k]

\* Step by step, for any table the call starts from: the first step of root
\* overwrites HOSTNAME with the hostname it resolved and touches nothing
\* else, the failing step touches nothing.
FailedRootSteps ==
    \A r \in Requests :
        /\ pc[r] = "root" /\ Steps(r) =>
            /\ Get(env', "HOSTNAME") = <<host'[r]>>
            /\ \A k \in Keys \ {"HOSTNAME"} : Get(env', k) = Get(env, k)
        /\ pc[r] = "local_ip" /\ pc'[r] = "unwrap_panic" =>
            /\ env' = env
            /\ Get(env, "HOSTNAME") # <<>>

\* C9: a root call that fails on local_ip() has already overwritten HOSTNAME
\* with the hostname it resolved; LOCAL_IP and every other variable are as
\* they were before the call.
C9_FailedRootWroteHostname == [] FailedRootLeaves /\ [][FailedRootSteps]_vars

\* A failed root call in a process started without the synthetic keys:
\* HOSTNAME is now set, LOCAL_IP still is not.
C9_Witness ==
    \E r \in Requests :
        /\ pc[r] = "unwrap_panic"
        /\ DOMAIN env0 = {"FOO"}
        /\ DOMAIN env = {"FOO", "HOSTNAME"}

\* ------------------------------------------------------------------ C10

\* C10: the snapshot behind every page that is returned holds both HOSTNAME
\* and LOCAL_IP, so the page never shows the empty string the template
\* renders for a missing key.
C10_BothKeysRendered ==
    \A r \in Requests :
        route[r] = "/" /\ Answered(r) =>
            /\ SyntheticKeys \subseteq DOMAIN envs[r][1]
            /\ resp[r][1].body.title # ""
            /\ resp[r][1].body.h1 # ""
            /\ resp[r][1].body.p # ""

\* A page whose HOSTNAME was written by the other root call and whose
\* LOCAL_IP was written by its own.
C10_Witness ==
    \E r, q \in Requests :
        /\ r # q
        /\ route[r] = "/" /\ Answered(r)
        /\ route[q] = "/" /\ pc[q] = "local_ip"
        /\ \A x \in Requests \ {r, q} : route[x] # "/"
        /\ resp[r][1].body.h1 = host[q] /\ host[q] # host[r]
        /\ resp[r][1].body.p = ip[r]

====
